---- MODULE Spec2Model ----
(***************************************************************************)
(* Verification model of the manual-ingestion pipeline (ingest.mjs) and    *)
(* of the retrieval server (/ask, /debug/embed).                           *)
(*                                                                         *)
(* Texts are sequences of one-character strings.  Indices in the          *)
(* JavaScript source are 0-based; the operators below keep the 0-based     *)
(* cursor values of the source and translate when they index a sequence.   *)
(***************************************************************************)
EXTENDS Integers, Sequences, FiniteSets, TLC

VARIABLES
    chunk_pc,      \* chunkText: "loop" | "returned" | "off"
    chunk_s,       \* chunkText: the argument s
    chunk_i,       \* chunkText: the cursor i
    chunk_out,     \* chunkText: the array out (trimmed slices, before filter)
    chunk_cuts,    \* chunkText: the [from, to) cursor pair of every push
    chunk_ret,     \* chunkText: the returned array
    ing_pc,        \* ingest run: the await point (or loop head) the run is at
    ing_docs,      \* ingest run: the names of the PDFs found in the docs directory
    ing_doc,       \* ingest run: index of the file ingestFile is working on
    ing_p,         \* ingestFile: the page loop variable p
    ing_pageTexts, \* ingestFile: pageTexts
    ing_chunks,    \* ingestFile: chunks
    ing_i,         \* ingestFile: the batch loop variable i
    ing_embedFn,   \* module variable embedFn is set
    ing_dim,       \* the output dimension of the loaded embedding model
    ing_pending,   \* the points of the upsert call in flight
    ing_points,    \* the points stored in the collection, in upsert order
    ing_trace,     \* ingest run: the calls made and their outcomes, in order
    emb_pc,        \* embedder of ingest.mjs: "unloaded" | "ready" | "awaiting" | "returned"
    emb_dim,       \* the output dimension of the loaded embedding model
    emb_texts,     \* embedFn: the argument texts
    emb_out,       \* embedFn: the pipeline's result out
    emb_vecs,      \* embedFn: the returned vectors
    srv_embedder,  \* server: module variable embedder (0: unset, else the handle)
    srv_loads,     \* server: number of pipeline(...) calls made so far
    srv_req,       \* server: per request, its route, await point and handle used
    ask_pc,        \* /ask: the await point the handler is at
    ask_q,         \* /ask: q
    ask_hitsRaw,   \* /ask: hitsRaw
    ask_hits,      \* /ask: hits
    ask_res        \* /ask: the response sent

chunkVars == <<chunk_pc, chunk_s, chunk_i, chunk_out, chunk_cuts, chunk_ret>>

ingVars == <<ing_pc, ing_docs, ing_doc, ing_p, ing_pageTexts, ing_chunks, ing_i,
             ing_embedFn, ing_dim, ing_pending, ing_points, ing_trace>>

embVars == <<emb_pc, emb_dim, emb_texts, emb_out, emb_vecs>>

srvVars == <<srv_embedder, srv_loads, srv_req>>

askVars == <<ask_pc, ask_q, ask_hitsRaw, ask_hits, ask_res>>

vars == <<chunkVars, ingVars, embVars, srvVars, askVars>>

exceptChunk == <<ingVars, embVars, srvVars, askVars>>

exceptIngest == <<chunkVars, embVars, srvVars, askVars>>

exceptEmbed == <<chunkVars, ingVars, srvVars, askVars>>

exceptServer == <<chunkVars, ingVars, embVars, askVars>>

exceptAsk == <<chunkVars, ingVars, embVars, srvVars>>

(***************************************************************************)
(* Generic helpers on texts                                                *)
(***************************************************************************)
Min(a, b) == IF a < b THEN a ELSE b

Max(a, b) == IF a > b THEN a ELSE b

\* The characters String.prototype.trim removes, among those the model uses.
IsSpace(c) == c \in {" ", "\n"}

\* s.slice(from, to) for 0 <= from, with to clamped to the length.
Slice(t, from, to) == SubSeq(t, from + 1, Min(to, Len(t)))

\* t.trim()
Trim(t) ==
    LET n == Len(t)
    IN  IF \A j \in 1..n : IsSpace(t[j]) THEN <<>>
        ELSE LET lo == CHOOSE j \in 1..n :
                           ~IsSpace(t[j]) /\ \A k \in 1..(j - 1) : IsSpace(t[k])
                 back == CHOOSE d \in 0..(n - 1) :
                           ~IsSpace(t[n - d]) /\ \A k \in (n - d + 1)..n : IsSpace(t[k])
             IN  SubSeq(t, lo, n - back)

\* t.lastIndexOf(c, from): the greatest 0-based index <= from holding c, or -1.
LastIndexOf(t, c, from) ==
    LET at == {j \in 0..Min(from, Len(t) - 1) : t[j + 1] = c}
    IN  IF at = {} THEN -1
        ELSE CHOOSE j \in at : \A k \in at : j >= k

(***************************************************************************)
(* ingest.mjs: chunking                                                    *)
(***************************************************************************)
CHUNK_CHARS == 900

CHUNK_OVERLAP == 120

\* Lines 49-51: the end of the chunk that starts at cursor i.
ChunkEnd(t, i, size) ==
    LET end == Min(i + size, Len(t))
        dot == LastIndexOf(t, ".", end)
    IN  IF 2 * dot > 2 * i + size THEN dot + 1 ELSE end

\* Line 53: i = Math.max(end - overlap, end)
NextCursor(end, overlap) == Max(end - overlap, end)

\* Line 55: out.filter(Boolean) drops the empty strings.
FilterBoolean(parts) == SelectSeq(parts, LAMBDA x : x # <<>>)

\* The whole function, as the loop computes it.
RECURSIVE ChunkLoop(_, _, _, _, _)
ChunkLoop(t, i, size, overlap, out) ==
    IF i < Len(t)
    THEN LET end == ChunkEnd(t, i, size)
         IN  ChunkLoop(t, NextCursor(end, overlap), size, overlap,
                       Append(out, Trim(Slice(t, i, end))))
    ELSE out

chunkText(t, size, overlap) == FilterBoolean(ChunkLoop(t, 0, size, overlap, <<>>))

(***************************************************************************)
(* ingest.mjs: text acquisition, embedding and upsert                      *)
(***************************************************************************)
BATCH == 24

\* Line 143: the shortest direct-extraction text that is used as it is.
MIN_DIRECT_CHARS == 30

Thrown == [ok |-> FALSE, val |-> 0]

Returned(v) == [ok |-> TRUE, val |-> v]

\* Lines 58-64.  r is spawnSync's result: its status, and the number after
\* "Pages:" in its stdout (-1 when stdout holds no such line).
getPageCount(r) ==
    IF r.status # 0 THEN Thrown
    ELSE IF r.pages < 0 THEN Thrown
    ELSE Returned(r.pages)

\* Lines 66-74.  The texts of the model hold no NUL character.
extractPageTextWithPdftotext(r) ==
    IF r.status # 0 THEN <<>> ELSE Trim(r.stdout)

\* A threshold off by one: a text of exactly 30 characters is recognized too.
NeedsOCR_Inclusive(text) == Len(text) = 0 \/ Len(text) <= MIN_DIRECT_CHARS

\* Line 143: !text || text.length < 30
NeedsOCR(text) == Len(text) = 0 \/ Len(text) < MIN_DIRECT_CHARS

\* A close handler that ignores the exit code.
RasterizeClose_IgnoreCode(code) == "resolve"

\* Line 85: the close handler of pdftoppm.
RasterizeClose(code) == IF code = 0 THEN "resolve" ELSE "reject"

\* .replace(/[ \t]+\n/g, '\n'): drop the spaces that run up to a newline.
StripBeforeNewline(t) ==
    LET n       == Len(t)
        Runs(j) == \E k \in (j + 1)..n :
                       t[k] = "\n" /\ \A m \in j..(k - 1) : t[m] = " "
        marked  == [j \in 1..n |-> IF t[j] = " " /\ Runs(j) THEN "" ELSE t[j]]
    IN  SelectSeq(marked, LAMBDA c : c # "")

\* Replace every maximal run of characters of the set chars, of length >= least,
\* by the single character by.
CollapseRuns(t, chars, least, by) ==
    LET n          == Len(t)
        InRun(j)   == j >= 1 /\ j <= n /\ t[j] \in chars
        RunHead(j) == InRun(j) /\ ~InRun(j - 1)
        LongRun(j) == InRun(j) /\ (least <= 1 \/ InRun(j - 1) \/ InRun(j + 1))
        marked == [j \in 1..n |->
                     IF LongRun(j) THEN (IF RunHead(j) THEN by ELSE "") ELSE t[j]]
    IN  SelectSeq(marked, LAMBDA c : c # "")

\* Lines 30-43, on the characters of the model (letters, digits, ".", "?",
\* " ", "\n"): the rules for "\r", "=", dashes, hyphenated line breaks and
\* curly quotes change no text made of these characters.
cleanText(t) ==
    LET r5 == StripBeforeNewline(t)
        \* .replace(/\n{2,}/g, '\n')
        r6 == CollapseRuns(r5, {"\n"}, 2, "\n")
        \* .replace(/[^\S\n]+/g, ' ')
        r8 == CollapseRuns(r6, {" "}, 1, " ")
        \* .replace(/\s{2,}/g, ' ')
        r9 == CollapseRuns(r8, {" ", "\n"}, 2, " ")
    IN  Trim(r9)

\* Lines 152-157: the chunks of every page, in page order.
RECURSIVE BuildChunks(_)
BuildChunks(pageTexts) ==
    IF pageTexts = <<>> THEN <<>>
    ELSE LET pt    == Head(pageTexts)
             parts == chunkText(pt.text, CHUNK_CHARS, CHUNK_OVERLAP)
         IN  [k \in 1..Len(parts) |-> [page |-> pt.page, text |-> parts[k]]]
                 \o BuildChunks(Tail(pageTexts))

\* The embedding model: a fixed function of the text.  The vector of a text
\* holds dim numbers that depend on the text's length and punctuation.
TextCode(t) ==
    3 * Len(t) + Cardinality({j \in 1..Len(t) : t[j] \in {".", " ", "\n"}})

ModelVector(t, dim) == [d \in 1..dim |-> TextCode(t) * 10 + d]

RECURSIVE Concat(_)
Concat(seqs) == IF seqs = <<>> THEN <<>> ELSE Head(seqs) \o Concat(Tail(seqs))

\* The three result shapes of the feature-extraction pipeline for a batch.
PipeArray(texts, dim) ==
    [kind |-> "array", dims |-> <<>>, data |-> <<>>,
     items |-> [k \in 1..Len(texts) |-> ModelVector(texts[k], dim)]]

PipeTensor(texts, dim) ==
    [kind |-> "tensor", dims |-> <<Len(texts), dim>>, items |-> <<>>,
     data |-> Concat([k \in 1..Len(texts) |-> ModelVector(texts[k], dim)])]

PipeVector(texts, dim) ==
    [kind |-> "tensor", dims |-> <<dim>>, items |-> <<>>,
     data |-> ModelVector(texts[1], dim)]

PipeOutputs(texts, dim) ==
    {PipeArray(texts, dim), PipeTensor(texts, dim)}
        \cup (IF Len(texts) = 1 THEN {PipeVector(texts, dim)} ELSE {})

\* Results of a backend that lost the last text of the batch, or that pooled
\* the whole batch into one vector.
BadPipeOutputs(texts, dim) ==
    IF Len(texts) < 2 THEN {}
    ELSE LET short == SubSeq(texts, 1, Len(texts) - 1)
         IN  {PipeArray(short, dim), PipeTensor(short, dim), PipeVector(texts, dim)}

\* Runs that start at i instead of i * dim.
TensorRun_Overlapping(data, i, dim) == Slice(data, i, i + dim)

\* Lines 123-125: run i (0-based) of the combined tensor.
TensorRun(data, i, dim) == Slice(data, i * dim, i * dim + dim)

\* Lines 109-127: embedFn's handling of the pipeline's result.
embedFn(out) ==
    IF out.kind = "array" THEN out.items
    ELSE IF Len(out.dims) <= 1 THEN <<out.data>>
    ELSE LET batch == out.dims[1]
             dim   == out.dims[Len(out.dims)]
         IN  [k \in 1..batch |-> TensorRun(out.data, k - 1, dim)]

\* The count check left out.
VectorCountMismatch_Never(vecs, batch) == FALSE

\* Lines 165-167.
VectorCountMismatch(vecs, batch) == Len(vecs) # Len(batch)

\* Lines 168-172 (the random id is left out).  vecs[j] past the end of vecs
\* is JavaScript's undefined.
BuildPoints(batch, vecs, doc) ==
    [j \in 1..Len(batch) |->
        [vector   |-> IF j <= Len(vecs) THEN vecs[j] ELSE <<"undefined">>,
         doc_id   |-> doc.docId,
         filename |-> doc.filename,
         page     |-> batch[j].page,
         text     |-> batch[j].text]]

\* Line 163: chunks.slice(i, i + BATCH)
BatchAt(chunks, i) == Slice(chunks, i, i + BATCH)

(***************************************************************************)
(* Page texts the chunker is run on: a text of a given length made of      *)
(* letters, with periods at the given 0-based positions, each optionally   *)
(* followed by one space.  Every such text is normalized (trimmed, no      *)
(* whitespace runs), as cleanText leaves it.                               *)
(***************************************************************************)
MaxDots == 2

TextLengths == {0, 1, 31, 451, 452, 800, 899, 900, 901, 1021, 1400, 1801, 2000}

DotPositions == {0, 300, 450, 451, 600, 779, 898, 899, 900, 1000, 1350, 1351, 1500}

PageText(len, dots, spaced) ==
    [j \in 1..len |->
        IF (j - 1) \in dots THEN "."
        ELSE IF spaced /\ (j - 2) \in dots /\ j < len THEN " "
        ELSE "a"]

PageTexts ==
    {PageText(len, dots, spaced) :
        len \in TextLengths,
        dots \in {d \in SUBSET DotPositions : Cardinality(d) <= MaxDots},
        spaced \in BOOLEAN}

ChunkOff ==
    /\ chunk_pc = "off"
    /\ chunk_s = <<>>
    /\ chunk_i = 0
    /\ chunk_out = <<>>
    /\ chunk_cuts = <<>>
    /\ chunk_ret = <<>>

IngestOff ==
    /\ ing_pc = "off"
    /\ ing_docs = <<>>
    /\ ing_doc = 0
    /\ ing_p = 0
    /\ ing_pageTexts = <<>>
    /\ ing_chunks = <<>>
    /\ ing_i = 0
    /\ ing_embedFn = FALSE
    /\ ing_dim = 0
    /\ ing_pending = <<>>
    /\ ing_points = <<>>
    /\ ing_trace = <<>>

EmbedOff ==
    /\ emb_pc = "off"
    /\ emb_dim = 0
    /\ emb_texts = <<>>
    /\ emb_out = <<>>
    /\ emb_vecs = <<>>

ServerOff ==
    /\ srv_embedder = 0
    /\ srv_loads = 0
    /\ srv_req = <<>>

AskOff ==
    /\ ask_pc = "off"
    /\ ask_q = <<>>
    /\ ask_hitsRaw = <<>>
    /\ ask_hits = <<>>
    /\ ask_res = <<>>

ChunkInit ==
    /\ IngestOff /\ EmbedOff /\ ServerOff /\ AskOff
    /\ chunk_pc = "loop"
    /\ chunk_s \in PageTexts
    /\ chunk_i = 0
    /\ chunk_out = <<>>
    /\ chunk_cuts = <<>>
    /\ chunk_ret = <<>>

\* One iteration of the while loop (lines 48-54).
ChunkStep ==
    /\ chunk_pc = "loop"
    /\ chunk_i < Len(chunk_s)
    /\ LET end == ChunkEnd(chunk_s, chunk_i, CHUNK_CHARS)
       IN  /\ chunk_out' = Append(chunk_out, Trim(Slice(chunk_s, chunk_i, end)))
           /\ chunk_cuts' = Append(chunk_cuts, [from |-> chunk_i, to |-> end])
           /\ chunk_i' = NextCursor(end, CHUNK_OVERLAP)
    /\ UNCHANGED <<chunk_pc, chunk_s, chunk_ret>>
    /\ UNCHANGED exceptChunk

\* Loop exit and return (line 55).
ChunkReturn ==
    /\ chunk_pc = "loop"
    /\ ~(chunk_i < Len(chunk_s))
    /\ chunk_ret' = FilterBoolean(chunk_out)
    /\ chunk_pc' = "returned"
    /\ UNCHANGED <<chunk_s, chunk_i, chunk_out, chunk_cuts>>
    /\ UNCHANGED exceptChunk

ChunkNext == ChunkStep \/ ChunkReturn

SpecChunk == ChunkInit /\ [][ChunkNext]_vars

\* C4: consecutive chunks whose boundary was not forced by the end of the page
\* text share at least CHUNK_OVERLAP characters: the cursor of chunk k+1 lies
\* at least CHUNK_OVERLAP before the end of chunk k.
C4_ChunksOverlap ==
    \A k \in 1..(Len(chunk_cuts) - 1) :
        chunk_cuts[k].to < Len(chunk_s)
            => chunk_cuts[k].to - chunk_cuts[k + 1].from >= CHUNK_OVERLAP

\* C5: a non-empty normalized page text shorter than CHUNK_CHARS comes back as
\* exactly one chunk, equal to the trimmed text.
C5_ShortTextOneChunk ==
    (chunk_pc = "returned" /\ Len(chunk_s) > 0 /\ Len(chunk_s) < CHUNK_CHARS)
        => chunk_ret = <<Trim(chunk_s)>>

(***************************************************************************)
(* The ingestion run (lines 133-193).  A document is what the external     *)
(* tools report for it: per page, pdftotext's stdout and the text          *)
(* Tesseract recognizes on the rasterized page.                            *)
(***************************************************************************)
MaxDocs == 2

MaxDim == 2

Letters(n) == [j \in 1..n |-> "a"]

\* A page of 25 chunks of distinct lengths: sentence k (0-based) is 452 + k
\* characters long and ends in a period; 100 letters follow the last one.
BigSentences == 24

BigDots == {(k + 1) * 452 + (k * (k + 1)) \div 2 - 1 : k \in 0..(BigSentences - 1)}

BigLength == BigSentences * 452 + (BigSentences * (BigSentences - 1)) \div 2 + 100

BigText == [j \in 1..BigLength |-> IF (j - 1) \in BigDots THEN "." ELSE "a"]

DocA ==
    [filename |-> "a.pdf", docId |-> "a",
     pages |-> << [direct |-> Letters(MIN_DIRECT_CHARS) \o <<"\n">>,
                   ocr    |-> <<" ">> \o Letters(20) \o <<" ", " ", "\n", "\n">>
                                  \o Letters(20) \o <<"\n">>],
                  [direct |-> Letters(MIN_DIRECT_CHARS - 1) \o <<"\n">>,
                   ocr    |-> PageText(1000, {600}, TRUE) \o <<"\n">>] >>]

DocB ==
    [filename |-> "big.pdf", docId |-> "big",
     pages |-> << [direct |-> BigText, ocr |-> <<>>] >>]

DocC ==
    [filename |-> "blank.pdf", docId |-> "blank",
     pages |-> << [direct |-> <<>>, ocr |-> <<"\n">>] >>]

Documents == {DocA, DocB, DocC}

\* The file of a given name in the docs directory.
DocNamed(f) == CHOOSE d \in Documents : d.filename = f

\* The directory listings: up to MaxDocs distinct file names, in any order.
DocLists ==
    {l \in UNION {[1..n -> {d.filename : d \in Documents}] : n \in 1..MaxDocs} :
        \A a, b \in 1..Len(l) : a # b => l[a] # l[b]}

Ev(e, d, p, st, n) == [ev |-> e, doc |-> d, page |-> p, status |-> st, len |-> n]

CurDoc == DocNamed(ing_docs[ing_doc])

IngestInit ==
    /\ ChunkOff /\ EmbedOff /\ ServerOff /\ AskOff
    /\ ing_pc = "next"
    /\ ing_docs \in DocLists
    /\ ing_doc = 1
    /\ ing_p = 0
    /\ ing_pageTexts = <<>>
    /\ ing_chunks = <<>>
    /\ ing_i = 0
    /\ ing_embedFn = FALSE
    /\ ing_dim = 0
    /\ ing_pending = <<>>
    /\ ing_points = <<>>
    /\ ing_trace = <<>>

\* Lines 191-193 and 134-137: the next file; getPageCount runs pdfinfo.
StartFile ==
    /\ ing_pc = "next"
    /\ ing_doc <= Len(ing_docs)
    /\ \E r \in {[status |-> 0, pages |-> Len(CurDoc.pages)],
                 [status |-> 0, pages |-> -1],
                 [status |-> 1, pages |-> -1]} :
          LET pages == getPageCount(r)
          IN  /\ ing_trace' = Append(ing_trace, Ev("pdfinfo", ing_doc, 0, r.status, r.pages))
              /\ ing_pc' = IF pages.ok THEN "page" ELSE "crashed"
    /\ ing_p' = 1
    /\ ing_pageTexts' = <<>>
    /\ ing_chunks' = <<>>
    /\ UNCHANGED <<ing_docs, ing_doc, ing_i, ing_embedFn, ing_dim, ing_pending, ing_points>>
    /\ UNCHANGED exceptIngest

\* Lines 140-150, up to the await of line 145: pdftotext on page p.
ExtractPage ==
    /\ ing_pc = "page"
    /\ ing_p <= Len(CurDoc.pages)
    /\ \E r \in {[status |-> 0, stdout |-> CurDoc.pages[ing_p].direct],
                 [status |-> 1, stdout |-> <<>>]} :
          LET text == extractPageTextWithPdftotext(r)
              ran  == Ev("pdftotext", ing_doc, ing_p, r.status, Len(text))
          IN  IF NeedsOCR(text)
              THEN /\ ing_trace' = ing_trace \o <<ran, Ev("ocr_call", ing_doc, ing_p, 0, 0)>>
                   /\ ing_pc' = "rasterize"
                   /\ UNCHANGED <<ing_p, ing_pageTexts>>
              ELSE /\ ing_trace' = Append(ing_trace, ran)
                   /\ ing_pageTexts' = Append(ing_pageTexts,
                                              [page |-> ing_p, text |-> cleanText(text)])
                   /\ ing_p' = ing_p + 1
                   /\ UNCHANGED ing_pc
    /\ UNCHANGED <<ing_docs, ing_doc, ing_chunks, ing_i, ing_embedFn, ing_dim,
                   ing_pending, ing_points>>
    /\ UNCHANGED exceptIngest

\* Lines 79-86: pdftoppm closes; on success Tesseract.recognize is called.
RasterizeDone ==
    /\ ing_pc = "rasterize"
    /\ \E code \in {0, 1} :
          /\ ing_trace' = Append(ing_trace, Ev("pdftoppm", ing_doc, ing_p, code, 0))
          /\ ing_pc' = IF RasterizeClose(code) = "resolve" THEN "recognize" ELSE "crashed"
    /\ UNCHANGED <<ing_docs, ing_doc, ing_p, ing_pageTexts, ing_chunks, ing_i,
                   ing_embedFn, ing_dim, ing_pending, ing_points>>
    /\ UNCHANGED exceptIngest

\* Lines 88-89 and 147-149: recognition ends; the page is pushed.
RecognizeDone ==
    /\ ing_pc = "recognize"
    /\ \/ LET text == Trim(CurDoc.pages[ing_p].ocr)
          IN  /\ ing_trace' = Append(ing_trace, Ev("ocr_return", ing_doc, ing_p, 0, Len(text)))
              /\ ing_pageTexts' = Append(ing_pageTexts,
                                         [page |-> ing_p, text |-> cleanText(text)])
              /\ ing_p' = ing_p + 1
              /\ ing_pc' = "page"
       \/ /\ ing_trace' = Append(ing_trace, Ev("ocr_throw", ing_doc, ing_p, 1, 0))
          /\ ing_pc' = "crashed"
          /\ UNCHANGED <<ing_p, ing_pageTexts>>
    /\ UNCHANGED <<ing_docs, ing_doc, ing_chunks, ing_i, ing_embedFn, ing_dim,
                   ing_pending, ing_points>>
    /\ UNCHANGED exceptIngest

\* Lines 152-161: after the last page, chunk; return when there is no chunk.
ChunkPages ==
    /\ ing_pc = "page"
    /\ ing_p > Len(CurDoc.pages)
    /\ LET chunks == BuildChunks(ing_pageTexts)
       IN  /\ ing_chunks' = chunks
           /\ IF chunks = <<>>
              THEN /\ ing_pc' = "next"
                   /\ ing_doc' = ing_doc + 1
              ELSE /\ ing_pc' = "getEmbedder"
                   /\ UNCHANGED ing_doc
    /\ UNCHANGED <<ing_docs, ing_p, ing_pageTexts, ing_i, ing_embedFn, ing_dim,
                   ing_pending, ing_points, ing_trace>>
    /\ UNCHANGED exceptIngest

\* Line 164, the call: embed(batch.map(b => b.text)) for the batch at i.
EmbedCalled(i) ==
    Ev("embed_call", ing_doc, 0, 0, Len(BatchAt(ing_chunks, i)))

\* Lines 103-106 and 161-164: getEmbedder resolves (loading the model the
\* first time) and the first batch is sent to the embedder.
GetEmbedder ==
    /\ ing_pc = "getEmbedder"
    /\ \/ /\ ing_embedFn
          /\ ing_pc' = "embedding"
          /\ ing_trace' = Append(ing_trace, EmbedCalled(0))
          /\ UNCHANGED <<ing_embedFn, ing_dim>>
       \/ /\ ~ing_embedFn
          /\ ing_embedFn' = TRUE
          /\ ing_dim' \in 1..MaxDim
          /\ ing_pc' = "embedding"
          /\ ing_trace' = Append(ing_trace, EmbedCalled(0))
       \/ /\ ~ing_embedFn
          /\ ing_pc' = "crashed"
          /\ ing_trace' = Append(ing_trace, Ev("pipeline_throw", ing_doc, 0, 1, 0))
          /\ UNCHANGED <<ing_embedFn, ing_dim>>
    /\ ing_i' = 0
    /\ UNCHANGED <<ing_docs, ing_doc, ing_p, ing_pageTexts, ing_chunks,
                   ing_pending, ing_points>>
    /\ UNCHANGED exceptIngest

\* Lines 108-128 and 165-173: the pipeline returns, embedFn shapes the result,
\* the count is checked and the batch's points are sent to qc.upsert.
EmbedReturns ==
    /\ ing_pc = "embedding"
    /\ LET batch == BatchAt(ing_chunks, ing_i)
           texts == [k \in 1..Len(batch) |-> batch[k].text]
       IN  \E out \in PipeOutputs(texts, ing_dim) \cup BadPipeOutputs(texts, ing_dim) :
              LET vecs == embedFn(out)
                  ret  == Ev("embed_return", ing_doc, 0, 0, Len(vecs))
              IN  IF VectorCountMismatch(vecs, batch)
                  THEN /\ ing_pc' = "crashed"
                       /\ ing_trace' = Append(ing_trace, ret)
                       /\ UNCHANGED ing_pending
                  ELSE /\ ing_pc' = "upserting"
                       /\ ing_pending' = BuildPoints(batch, vecs, CurDoc)
                       /\ ing_trace' = ing_trace \o
                              <<ret, Ev("upsert_call", ing_doc, 0, 0, Len(batch))>>
    /\ UNCHANGED <<ing_docs, ing_doc, ing_p, ing_pageTexts, ing_chunks, ing_i,
                   ing_embedFn, ing_dim, ing_points>>
    /\ UNCHANGED exceptIngest

\* Lines 173-176 and 162-164: the upsert ends; the next batch is embedded, or
\* the file is done.
UpsertDone ==
    /\ ing_pc = "upserting"
    /\ \/ /\ ing_points' = ing_points \o ing_pending
          /\ ing_pending' = <<>>
          /\ ing_i' = ing_i + BATCH
          /\ IF ing_i + BATCH < Len(ing_chunks)
             THEN /\ ing_pc' = "embedding"
                  /\ ing_trace' = ing_trace \o
                         <<Ev("upsert_return", ing_doc, 0, 0, Len(ing_pending)),
                           EmbedCalled(ing_i + BATCH)>>
             ELSE /\ ing_pc' = "fileDone"
                  /\ ing_trace' = Append(ing_trace,
                         Ev("upsert_return", ing_doc, 0, 0, Len(ing_pending)))
       \/ /\ ing_pc' = "crashed"
          /\ ing_trace' = Append(ing_trace, Ev("upsert_throw", ing_doc, 0, 1, 0))
          /\ UNCHANGED <<ing_points, ing_pending, ing_i>>
    /\ UNCHANGED <<ing_docs, ing_doc, ing_p, ing_pageTexts, ing_chunks,
                   ing_embedFn, ing_dim>>
    /\ UNCHANGED exceptIngest

\* Line 176-177: ingestFile returns; the run loop moves to the next file.
FileDone ==
    /\ ing_pc = "fileDone"
    /\ ing_pc' = "next"
    /\ ing_doc' = ing_doc + 1
    /\ UNCHANGED <<ing_docs, ing_p, ing_pageTexts, ing_chunks, ing_i, ing_embedFn,
                   ing_dim, ing_pending, ing_points, ing_trace>>
    /\ UNCHANGED exceptIngest

\* Line 193: no file is left.
RunDone ==
    /\ ing_pc = "next"
    /\ ing_doc > Len(ing_docs)
    /\ ing_pc' = "finished"
    /\ UNCHANGED <<ing_docs, ing_doc, ing_p, ing_pageTexts, ing_chunks, ing_i,
                   ing_embedFn, ing_dim, ing_pending, ing_points, ing_trace>>
    /\ UNCHANGED exceptIngest

IngestNext ==
    \/ StartFile
    \/ ExtractPage
    \/ RasterizeDone
    \/ RecognizeDone
    \/ ChunkPages
    \/ GetEmbedder
    \/ EmbedReturns
    \/ UpsertDone
    \/ FileDone
    \/ RunDone

SpecIngest == IngestInit /\ [][IngestNext]_vars

(***************************************************************************)
(* Properties of the ingestion run                                         *)
(***************************************************************************)
EventsAt(e, d, p) ==
    {k \in 1..Len(ing_trace) :
        ing_trace[k].ev = e /\ ing_trace[k].doc = d /\ ing_trace[k].page = p}

CountOf(e) == Cardinality({k \in 1..Len(ing_trace) : ing_trace[k].ev = e})

\* The stored points of the d-th file of the run, in upsert order.
PointsOf(d) ==
    SelectSeq(ing_points, LAMBDA pt : pt.doc_id = DocNamed(ing_docs[d]).docId)

\* C8: for every page whose direct extraction has run, rasterizeAndOCR has been
\* called exactly once if the extracted text has fewer than 30 characters and
\* never otherwise; pages are extracted in order 1, 2, ..., each extraction
\* directly after the page count (page 1), after the previous page's direct
\* text was accepted, or after the previous page's recognition returned.
C8_OcrExactlyWhenThin ==
    \A k \in 1..Len(ing_trace) :
        LET e == ing_trace[k]
        IN  /\ e.ev = "pdftotext" =>
                /\ Cardinality(EventsAt("pdftotext", e.doc, e.page)) = 1
                /\ Cardinality(EventsAt("ocr_call", e.doc, e.page))
                       = (IF e.len < 30 THEN 1 ELSE 0)
                /\ k > 1
                /\ LET prev == ing_trace[k - 1]
                   IN  /\ prev.doc = e.doc
                       /\ IF e.page = 1 THEN prev.ev = "pdfinfo"
                          ELSE /\ prev.page = e.page - 1
                               /\ \/ prev.ev = "pdftotext" /\ prev.len >= 30
                                  \/ prev.ev = "ocr_return"
            /\ e.ev = "ocr_call" =>
                /\ k > 1
                /\ ing_trace[k - 1].ev = "pdftotext"
                /\ ing_trace[k - 1].doc = e.doc
                /\ ing_trace[k - 1].page = e.page

\* A file whose first page was taken from direct extraction and whose second
\* page went through recognition, which has returned.
C8_Witness ==
    \E k \in 1..Len(ing_trace) :
        /\ ing_trace[k].ev = "ocr_return"
        /\ ing_trace[k].page = 2
        /\ \E m \in EventsAt("pdftotext", ing_trace[k].doc, 1) : ing_trace[m].len >= 30
        /\ \E m \in EventsAt("pdftotext", ing_trace[k].doc, 2) :
              ing_trace[m].len > 0 /\ ing_trace[m].len < 30

ToolFailureIsFatal(k) ==
    /\ k = Len(ing_trace)
    /\ ing_pc = "crashed"
    /\ PointsOf(ing_trace[k].doc) = <<>>

\* C9 as stated: a non-zero exit of pdfinfo, pdftotext or pdftoppm ends the run
\* with an error: nothing follows it, and no point of the file is stored.
C9_AnyToolFailureIsFatal ==
    \A k \in 1..Len(ing_trace) :
        (ing_trace[k].ev \in {"pdfinfo", "pdftotext", "pdftoppm"} /\ ing_trace[k].status # 0)
            => ToolFailureIsFatal(k)

\* C9 amended: a non-zero exit of pdfinfo or pdftoppm ends the run with an
\* error, nothing follows it and no point of the file is stored; a non-zero
\* exit of pdftotext yields the empty text and is followed at once by the call
\* of rasterizeAndOCR for the same page.
C9_FatalExceptExtraction ==
    \A k \in 1..Len(ing_trace) :
        LET e == ing_trace[k]
        IN  /\ (e.ev \in {"pdfinfo", "pdftoppm"} /\ e.status # 0) => ToolFailureIsFatal(k)
            /\ (e.ev = "pdftotext" /\ e.status # 0) =>
                  /\ e.len = 0
                  /\ k < Len(ing_trace)
                  /\ ing_trace[k + 1].ev = "ocr_call"
                  /\ ing_trace[k + 1].doc = e.doc
                  /\ ing_trace[k + 1].page = e.page

\* The run has crashed on a pdftoppm failure in a file one of whose pages had
\* a pdftotext failure before, while an earlier file's points are stored.
C9_Witness ==
    /\ ing_pc = "crashed"
    /\ ing_trace[Len(ing_trace)].ev = "pdftoppm"
    /\ ing_trace[Len(ing_trace)].status # 0
    /\ \E k \in 1..Len(ing_trace) :
          /\ ing_trace[k].ev = "pdftotext"
          /\ ing_trace[k].status # 0
          /\ ing_trace[k].doc = ing_doc
    /\ ing_points # <<>>

\* C10: batches are consecutive groups of at most 24 chunks in chunk order; at
\* most one embed or upsert call is in flight; a vector count that differs
\* from the batch size ends the run before the batch is upserted; every stored
\* point pairs a chunk with the vector of its own text; and when ingestFile is
\* done the file has as many points as chunks, none of them empty.
C10_SequentialBatches ==
    /\ \A k \in 1..Len(ing_trace) :
          LET e == ing_trace[k]
          IN  /\ e.ev \in {"embed_call", "upsert_call"} => e.len >= 1 /\ e.len <= 24
              /\ e.ev = "embed_call" =>
                    (k > 1 /\ ing_trace[k - 1].ev \notin {"embed_call", "upsert_call"})
              /\ (e.ev = "embed_return" /\ e.len # ing_trace[k - 1].len) =>
                    (k = Len(ing_trace) /\ ing_pc = "crashed")
    /\ CountOf("embed_call") + CountOf("upsert_call")
          - CountOf("embed_return") - CountOf("upsert_return") - CountOf("upsert_throw")
          <= 1
    /\ \A j \in 1..Len(ing_points) :
          ing_points[j].vector = ModelVector(ing_points[j].text, ing_dim)
    /\ ing_pc \in {"embedding", "upserting", "fileDone"} =>
          LET mine == PointsOf(ing_doc)
          IN  /\ Len(mine) = Min(ing_i, Len(ing_chunks))
              /\ \A j \in 1..Len(mine) :
                    /\ mine[j].page = ing_chunks[j].page
                    /\ mine[j].text = ing_chunks[j].text
    /\ ing_pc = "fileDone" =>
          /\ Len(PointsOf(ing_doc)) = Len(ing_chunks)
          /\ \A j \in 1..Len(ing_chunks) : ing_chunks[j].text # <<>>

\* A file of more than 24 chunks has been ingested to the end, in two batches.
C10_Witness ==
    /\ ing_pc = "fileDone"
    /\ Len(ing_chunks) > 24
    /\ Len(PointsOf(ing_doc)) = Len(ing_chunks)
    /\ Cardinality({k \in 1..Len(ing_trace) :
           ing_trace[k].ev = "upsert_return" /\ ing_trace[k].doc = ing_doc}) = 2

(***************************************************************************)
(* ingest.mjs: the embedder on its own (lines 102-130), with a pipeline    *)
(* that answers in one of its three result shapes.                         *)
(***************************************************************************)
MaxBatch == 3

SampleTexts == {<<"a">>, <<"a", "b">>, <<"a", ".", " ", "c">>}

SampleBatches == UNION {[1..n -> SampleTexts] : n \in 1..MaxBatch}

EmbedInit ==
    /\ ChunkOff /\ IngestOff /\ ServerOff /\ AskOff
    /\ emb_pc = "unloaded"
    /\ emb_dim = 0
    /\ emb_texts = <<>>
    /\ emb_out = <<>>
    /\ emb_vecs = <<>>

\* Lines 103-106, 129: the first getEmbedder call loads the model.
LoadEmbedder ==
    /\ emb_pc = "unloaded"
    /\ emb_dim' \in 1..MaxDim
    /\ emb_pc' = "ready"
    /\ UNCHANGED <<emb_texts, emb_out, emb_vecs>>
    /\ UNCHANGED exceptEmbed

\* Lines 107-108: embedFn(texts) calls the pipeline.
CallEmbedFn ==
    /\ emb_pc \in {"ready", "returned"}
    /\ emb_texts' \in SampleBatches
    /\ emb_out' = <<>>
    /\ emb_vecs' = <<>>
    /\ emb_pc' = "awaiting"
    /\ UNCHANGED emb_dim
    /\ UNCHANGED exceptEmbed

\* Lines 108-127: the pipeline's result arrives and is shaped.
PipeReturns ==
    /\ emb_pc = "awaiting"
    /\ \E out \in PipeOutputs(emb_texts, emb_dim) :
          /\ emb_out' = out
          /\ emb_vecs' = embedFn(out)
    /\ emb_pc' = "returned"
    /\ UNCHANGED <<emb_dim, emb_texts>>
    /\ UNCHANGED exceptEmbed

EmbedNext == LoadEmbedder \/ CallEmbedFn \/ PipeReturns

SpecEmbed == EmbedInit /\ [][EmbedNext]_vars

\* C6: for a batch of N >= 1 texts embedFn returns exactly N vectors, each of
\* the model's dimension, vector i being the model's vector of text i, whatever
\* the shape of the pipeline's result.
C6_OneVectorPerText ==
    emb_pc = "returned" =>
        /\ Len(emb_vecs) = Len(emb_texts)
        /\ \A k \in 1..Len(emb_texts) :
              /\ Len(emb_vecs[k]) = emb_dim
              /\ emb_vecs[k] = ModelVector(emb_texts[k], emb_dim)

\* A batch of two or more different texts came back as one combined tensor.
C6_Witness ==
    /\ emb_pc = "returned"
    /\ Len(emb_texts) >= 2
    /\ emb_texts[1] # emb_texts[2]
    /\ emb_out.kind = "tensor"
    /\ Len(emb_out.dims) = 2
    /\ emb_dim >= 2

(***************************************************************************)
(* Server: the lazily loaded embedder shared by the request handlers       *)
(* (embed, lines 55-61; /ask, lines 101-166; /debug/embed, lines 168-177). *)
(***************************************************************************)
MaxRequests == 3

Requests == 1..MaxRequests

NoRequest == [route |-> "none", pc |-> "none", handle |-> 0]

ServerInit ==
    /\ ChunkOff /\ IngestOff /\ EmbedOff /\ AskOff
    /\ srv_embedder = 0
    /\ srv_loads = 0
    /\ srv_req = [r \in Requests |-> NoRequest]

\* Line 57, the test: the embedder has to be loaded.
MustLoad(embedder) == embedder = 0

\* A request arrives; its handler runs up to the first await inside embed
\* (line 57 when the embedder is unset, line 58 otherwise).
Arrive(r) ==
    /\ srv_req[r].pc = "none"
    /\ \E route \in {"ask", "debug"} :
          IF MustLoad(srv_embedder)
          THEN /\ srv_loads' = srv_loads + 1
               /\ srv_req' = [srv_req EXCEPT
                      ![r] = [route |-> route, pc |-> "loading", handle |-> srv_loads + 1]]
          ELSE /\ srv_req' = [srv_req EXCEPT
                      ![r] = [route |-> route, pc |-> "extracting", handle |-> srv_embedder]]
               /\ UNCHANGED srv_loads
    /\ UNCHANGED srv_embedder
    /\ UNCHANGED exceptServer

\* Line 57-58: pipeline(...) resolves; the handle is stored and used.
LoadDone(r) ==
    /\ srv_req[r].pc = "loading"
    /\ srv_embedder' = srv_req[r].handle
    /\ srv_req' = [srv_req EXCEPT ![r].pc = "extracting"]
    /\ UNCHANGED srv_loads
    /\ UNCHANGED exceptServer

\* Line 57: pipeline(...) rejects; the handler answers 500 (lines 163, 174).
LoadFails(r) ==
    /\ srv_req[r].pc = "loading"
    /\ srv_req' = [srv_req EXCEPT ![r].pc = "error500", ![r].handle = 0]
    /\ UNCHANGED <<srv_embedder, srv_loads>>
    /\ UNCHANGED exceptServer

\* Lines 58-60: the embedder returns; /debug/embed answers (line 173), /ask
\* goes on to the search (line 110).
ExtractDone(r) ==
    /\ srv_req[r].pc = "extracting"
    /\ srv_req' = [srv_req EXCEPT
           ![r].pc = IF srv_req[r].route = "ask" THEN "searching" ELSE "answered"]
    /\ UNCHANGED <<srv_embedder, srv_loads>>
    /\ UNCHANGED exceptServer

\* Lines 110-152: the search returns and the completion service is called.
SearchDone(r) ==
    /\ srv_req[r].pc = "searching"
    /\ srv_req' = [srv_req EXCEPT ![r].pc = "completing"]
    /\ UNCHANGED <<srv_embedder, srv_loads>>
    /\ UNCHANGED exceptServer

\* Lines 152-162: the completion returns and /ask answers.
CompletionDone(r) ==
    /\ srv_req[r].pc = "completing"
    /\ srv_req' = [srv_req EXCEPT ![r].pc = "answered"]
    /\ UNCHANGED <<srv_embedder, srv_loads>>
    /\ UNCHANGED exceptServer

ServerNext ==
    \E r \in Requests :
        \/ Arrive(r)
        \/ LoadDone(r)
        \/ LoadFails(r)
        \/ ExtractDone(r)
        \/ SearchDone(r)
        \/ CompletionDone(r)

SpecServer == ServerInit /\ [][ServerNext]_vars

\* C7: the model is loaded once over the life of the process, and every
\* request that has reached the embedder uses the same handle.
C7_LoadedOnce ==
    /\ srv_loads <= 1
    /\ \A a, b \in Requests :
          (srv_req[a].handle # 0 /\ srv_req[b].handle # 0)
              => srv_req[a].handle = srv_req[b].handle

(***************************************************************************)
(* Server: the /ask retrieval funnel (lines 101-166)                       *)
(***************************************************************************)
Uppers ==
    <<"A", "B", "C", "D", "E", "F", "G", "H", "I", "J", "K", "L", "M",
      "N", "O", "P", "Q", "R", "S", "T", "U", "V", "W", "X", "Y", "Z">>

Lowers ==
    <<"a", "b", "c", "d", "e", "f", "g", "h", "i", "j", "k", "l", "m",
      "n", "o", "p", "q", "r", "s", "t", "u", "v", "w", "x", "y", "z">>

Digits == {"0", "1", "2", "3", "4", "5", "6", "7", "8", "9"}

\* String.prototype.toLowerCase, character by character.
LowerOf == [c \in {Uppers[k] : k \in 1..Len(Uppers)} |->
               Lowers[CHOOSE k \in 1..Len(Uppers) : Uppers[k] = c]]

ToLowerChar(c) == IF c \in DOMAIN LowerOf THEN LowerOf[c] ELSE c

ToLowerCase(t) == [j \in 1..Len(t) |-> ToLowerChar(t[j])]

\* The character class [a-z0-9].
LowerAlnum == Digits \cup {Lowers[k] : k \in 1..Len(Lowers)}

IsLowerAlnum(c) == c \in LowerAlnum

\* t.includes(w)
Includes(t, w) ==
    \E j \in 0..(Len(t) - Len(w)) : SubSeq(t, j + 1, j + Len(w)) = w

\* t.match(/[a-z0-9]+/g) || []: the maximal runs of [a-z0-9], left to right.
RECURSIVE MatchAlnumFrom(_, _)
MatchAlnumFrom(t, from) ==
    LET starts == {j \in from..Len(t) : IsLowerAlnum(t[j])}
    IN  IF starts = {} THEN <<>>
        ELSE LET a == CHOOSE j \in starts : \A k \in starts : j <= k
                 b == CHOOSE j \in a..Len(t) :
                          /\ \A k \in a..j : IsLowerAlnum(t[k])
                          /\ (j = Len(t) \/ ~IsLowerAlnum(t[j + 1]))
             IN  <<SubSeq(t, a, b)>> \o MatchAlnumFrom(t, b + 1)

MatchAlnum(t) == MatchAlnumFrom(t, 1)

\* Array.from(new Set(a)): first occurrences, in order.
RECURSIVE Unique(_)
Unique(a) ==
    IF a = <<>> THEN <<>>
    ELSE LET init == Unique(SubSeq(a, 1, Len(a) - 1))
             last == a[Len(a)]
         IN  IF \E k \in 1..Len(init) : init[k] = last THEN init ELSE Append(init, last)

SeqIncludes(a, x) == \E k \in 1..Len(a) : a[k] = x

\* "defog"
DEFOG ==
    <<"d", "e", "f", "o", "g">>

\* "defrost"
DEFROST ==
    <<"d", "e", "f", "r", "o", "s", "t">>

\* "demist"
DEMIST ==
    <<"d", "e", "m", "i", "s", "t">>

\* Line 132.
SYNS == <<DEFOG, DEFROST, DEMIST>>

\* Lines 133-135.
QWords(q) == Unique(MatchAlnum(ToLowerCase(q)))

\* Keywords that ignore the synonym group.
Keywords_NoSynonyms(q) == SelectSeq(QWords(q), LAMBDA w : Len(w) >= 4)

\* Lines 136-138.
Keywords(q) ==
    LET qwords == QWords(q)
    IN  IF SeqIncludes(qwords, DEFOG) \/ SeqIncludes(qwords, DEFROST)
               \/ SeqIncludes(qwords, DEMIST)
        THEN SYNS
        ELSE SelectSeq(qwords, LAMBDA w : Len(w) >= 4)

\* Line 142, 0.45 in hundredths: scores are kept as integers, 100 times the
\* cosine similarity.
SCORE_MIN == 45

\* Line 145.
MAX_USED == 6

\* Line 158.
MAX_CITATIONS == 3

\* Line 112.
SEARCH_LIMIT == 24

\* Line 141.
SameFile(h, top) == h.filename = top.filename

\* Line 142.
AboveFloor(h) == h.score >= SCORE_MIN

\* Line 143.
OnTopic(h, kw) ==
    IF Len(kw) # 0
    THEN \E k \in 1..Len(kw) : Includes(ToLowerCase(h.text), kw[k])
    ELSE TRUE

\* Line 144: Array.prototype.sort with (a, b) => b.score - a.score; the sort
\* is stable.
RECURSIVE SortByScore(_)
SortByScore(a) ==
    IF a = <<>> THEN <<>>
    ELSE LET init == SortByScore(SubSeq(a, 1, Len(a) - 1))
             last == a[Len(a)]
             ahead == Cardinality({k \in 1..Len(init) : init[k].score >= last.score})
         IN  SubSeq(init, 1, ahead) \o <<last>> \o SubSeq(init, ahead + 1, Len(init))

\* No fallback: the filtered list is used as it is.
Fallback_None(hits, top) == hits

\* Line 148.
Fallback(hits, top) == IF Len(hits) = 0 THEN <<top>> ELSE hits

\* Lines 131-148: hits from hitsRaw (not empty) and the question.
Funnel(q, hitsRaw) ==
    LET top == hitsRaw[1]
        kw  == Keywords(q)
        f1  == SelectSeq(hitsRaw, LAMBDA h : SameFile(h, top))
        f2  == SelectSeq(f1, AboveFloor)
        f3  == SelectSeq(f2, LAMBDA h : OnTopic(h, kw))
    IN  Fallback(Slice(SortByScore(f3), 0, MAX_USED), top)

\* Citations that are never cut off.
RECURSIVE CiteFrom_NoCap(_, _)
CiteFrom_NoCap(hits, citations) ==
    IF hits = <<>> THEN citations
    ELSE LET h == Head(hits)
         IN  IF ~\E k \in 1..Len(citations) :
                    citations[k].filename = h.filename /\ citations[k].page = h.page
             THEN CiteFrom_NoCap(Tail(hits),
                      Append(citations, [filename |-> h.filename, page |-> h.page]))
             ELSE CiteFrom_NoCap(Tail(hits), citations)

\* Lines 155-160: the loop over hits, with its break.
RECURSIVE CiteFrom(_, _)
CiteFrom(hits, citations) ==
    IF hits = <<>> THEN citations
    ELSE LET h == Head(hits)
         IN  IF ~\E k \in 1..Len(citations) :
                    citations[k].filename = h.filename /\ citations[k].page = h.page
             THEN LET pushed == Append(citations, [filename |-> h.filename, page |-> h.page])
                  IN  IF Len(pushed) >= MAX_CITATIONS THEN pushed
                      ELSE CiteFrom(Tail(hits), pushed)
             ELSE CiteFrom(Tail(hits), citations)

\* Lines 154-160.
Citations(hits) == CiteFrom(hits, <<>>)

(***************************************************************************)
(* The questions asked and the points of the collection.  A point's score  *)
(* is its similarity to the question, in hundredths.                       *)
(***************************************************************************)
\* "How do I defog the windshield?"
Q_Defog ==
    <<"H", "o", "w", " ", "d", "o", " ", "I", " ", "d", "e", "f", "o", "g",
      " ", "t", "h", "e", " ", "w", "i", "n", "d", "s", "h", "i", "e", "l",
      "d", "?">>

\* "Defogger fuse"
Q_Defogger ==
    <<"D", "e", "f", "o", "g", "g", "e", "r", " ", "f", "u", "s", "e">>

\* "Oil?"
Q_Oil ==
    <<"O", "i", "l", "?">>

\* "tire pressure"
Q_Tire ==
    <<"t", "i", "r", "e", " ", "p", "r", "e", "s", "s", "u", "r", "e">>

\* "   "
Q_Blank ==
    <<" ", " ", " ">>

\* " DEMIST now "
Q_Demist ==
    <<" ", "D", "E", "M", "I", "S", "T", " ", "n", "o", "w", " ">>

Questions == {<<>>, Q_Defog, Q_Defogger, Q_Oil, Q_Tire, Q_Blank, Q_Demist}

\* "Set the heater to DEFROST."
T_HeaterDefrost ==
    <<"S", "e", "t", " ", "t", "h", "e", " ", "h", "e", "a", "t", "e", "r",
      " ", "t", "o", " ", "D", "E", "F", "R", "O", "S", "T", ".">>

\* "Tire pressure 24 psi"
T_Tire ==
    <<"T", "i", "r", "e", " ", "p", "r", "e", "s", "s", "u", "r", "e", " ",
      "2", "4", " ", "p", "s", "i">>

\* "defrost relay"
T_Relay ==
    <<"d", "e", "f", "r", "o", "s", "t", " ", "r", "e", "l", "a", "y">>

\* "Defog switch"
T_Switch ==
    <<"D", "e", "f", "o", "g", " ", "s", "w", "i", "t", "c", "h">>

\* "demist vents"
T_Vents ==
    <<"d", "e", "m", "i", "s", "t", " ", "v", "e", "n", "t", "s">>

\* "defogger fuse 10A"
T_Fuse ==
    <<"d", "e", "f", "o", "g", "g", "e", "r", " ", "f", "u", "s", "e", " ",
      "1", "0", "A">>

\* "DEFROST lever"
T_Lever ==
    <<"D", "E", "F", "R", "O", "S", "T", " ", "l", "e", "v", "e", "r">>

\* "oil defrost"
T_Oil ==
    <<"o", "i", "l", " ", "d", "e", "f", "r", "o", "s", "t">>

Point(f, p, sc, tx) == [filename |-> f, page |-> p, score |-> sc, text |-> tx]

\* The stored points.  The point of page 1 with score 50 mentions only
\* "defrost"; the point of page 2 with score 60 has no text in its payload.
Points ==
    {Point("manual.pdf", 1, 90, T_HeaterDefrost),
     Point("manual.pdf", 2, 80, T_Tire),
     Point("wiring.pdf", 1, 80, T_Relay),
     Point("manual.pdf", 2, 70, T_Fuse),
     Point("manual.pdf", 7, 65, T_Lever),
     Point("manual.pdf", 2, 60, <<>>),
     Point("manual.pdf", 8, 55, T_Oil),
     Point("manual.pdf", 1, 50, DEFROST),
     Point("manual.pdf", 3, 50, T_Switch),
     Point("manual.pdf", 4, 45, T_Vents),
     Point("manual.pdf", 5, 40, DEFOG)}

MaxHits == 7

\* The orders a similarity search may return the points of S in: by score,
\* highest first, points of equal score in either order.
RECURSIVE Ranked(_)
Ranked(S) ==
    IF S = {} THEN {<<>>}
    ELSE UNION {{<<h>> \o rest : rest \in Ranked(S \ {h})} :
                    h \in {x \in S : \A y \in S : x.score >= y.score}}

\* Lines 110-122: what qc.search may return, normalized: at most
\* SEARCH_LIMIT (and MaxHits) of the stored points, ranked.
SearchResults ==
    UNION {Ranked(S) :
        S \in {T \in SUBSET Points : Cardinality(T) <= Min(SEARCH_LIMIT, MaxHits)}}

Response(st, routed, cits, used) ==
    [status |-> st, routed |-> routed, citations |-> cits, used |-> used]

AskInit ==
    /\ ChunkOff /\ IngestOff /\ EmbedOff /\ ServerOff
    /\ ask_pc = "idle"
    /\ ask_q = <<>>
    /\ ask_hitsRaw = <<>>
    /\ ask_hits = <<>>
    /\ ask_res = <<>>

\* Lines 103-107: the request arrives; an empty question is answered 400,
\* otherwise the question is sent to the embedder.
AskReceive ==
    /\ ask_pc = "idle"
    /\ \E question \in Questions :
          LET q == Trim(question)
          IN  /\ ask_q' = q
              /\ IF q = <<>>
                 THEN /\ ask_res' = Response(400, "", <<>>, <<>>)
                      /\ ask_pc' = "done"
                 ELSE /\ ask_pc' = "embedding"
                      /\ UNCHANGED ask_res
    /\ UNCHANGED <<ask_hitsRaw, ask_hits>>
    /\ UNCHANGED exceptAsk

\* Lines 107-114: the query vector arrives and the search is issued.
AskEmbedded ==
    /\ ask_pc = "embedding"
    /\ ask_pc' = "searching"
    /\ UNCHANGED <<ask_q, ask_hitsRaw, ask_hits, ask_res>>
    /\ UNCHANGED exceptAsk

\* Lines 117-152: the search returns; the hits are filtered and the prompt is
\* sent to the completion service.
AskSearched ==
    /\ ask_pc = "searching"
    /\ \E raw \in SearchResults :
          /\ ask_hitsRaw' = raw
          /\ ask_hits' = IF Len(raw) = 0 THEN <<>> ELSE Funnel(ask_q, raw)
    /\ ask_pc' = "completing"
    /\ UNCHANGED <<ask_q, ask_res>>
    /\ UNCHANGED exceptAsk

\* Lines 126-127 and 152-162: the answer arrives and the response is sent.
AskCompleted ==
    /\ ask_pc = "completing"
    /\ ask_res' = IF Len(ask_hitsRaw) = 0
                  THEN Response(200, "no_context", <<>>, <<>>)
                  ELSE Response(200, "retrieval", Citations(ask_hits), ask_hits)
    /\ ask_pc' = "done"
    /\ UNCHANGED <<ask_q, ask_hitsRaw, ask_hits>>
    /\ UNCHANGED exceptAsk

\* Lines 163-165: embed, the search or the completion throws.
AskFails ==
    /\ ask_pc \in {"embedding", "searching", "completing"}
    /\ ask_res' = Response(500, "", <<>>, <<>>)
    /\ ask_pc' = "done"
    /\ UNCHANGED <<ask_q, ask_hitsRaw, ask_hits>>
    /\ UNCHANGED exceptAsk

AskNext == AskReceive \/ AskEmbedded \/ AskSearched \/ AskCompleted \/ AskFails

SpecAsk == AskInit /\ [][AskNext]_vars

(***************************************************************************)
(* Properties of the /ask funnel.  The gates are restated here from their  *)
(* description, on sets of tokens, apart from the operators of the model.  *)
(***************************************************************************)
\* The lower-cased alphanumeric tokens of a question.
TokensOf(q) ==
    LET lq == ToLowerCase(q)
        Alnum(j) == j >= 1 /\ j <= Len(lq) /\ lq[j] \in LowerAlnum
        starts == {c \in 1..Len(lq) : Alnum(c) /\ ~Alnum(c - 1)}
        EndOf(c) == CHOOSE d \in c..Len(lq) :
                        (\A j \in c..d : Alnum(j)) /\ ~Alnum(d + 1)
    IN  {SubSeq(lq, c, EndOf(c)) : c \in starts}

KeywordsOf(q) ==
    IF TokensOf(q) \cap {DEFOG, DEFROST, DEMIST} # {}
    THEN {DEFOG, DEFROST, DEMIST}
    ELSE {w \in TokensOf(q) : Len(w) >= 4}

\* The candidate passes the family gate, the score floor and the lexical gate
\* for the keyword set kw.
RetainedFor(h, kw) ==
    /\ h.filename = ask_hitsRaw[1].filename
    /\ h.score >= 45
    /\ (kw = {} \/ \E w \in kw : Includes(ToLowerCase(h.text), w))

\* The candidates that pass the gates, in the order of the search.
Kept ==
    LET kw == KeywordsOf(ask_q)
    IN  SelectSeq(ask_hitsRaw, LAMBDA h : RetainedFor(h, kw))

Filtered == ask_pc \in {"completing", "done"} /\ ask_hitsRaw # <<>>

Answered == ask_pc = "done" /\ ask_res.status = 200 /\ ask_res.routed = "retrieval"

\* C1: whenever the search returned a candidate the context list is not empty,
\* and when no candidate passes the three gates it is the one-element list of
\* the first candidate, which has the highest score of the search.
C1_FallbackToTop ==
    /\ Filtered =>
          /\ ask_hits # <<>>
          /\ Kept = <<>> =>
                /\ ask_hits = <<ask_hitsRaw[1]>>
                /\ \A j \in 1..Len(ask_hitsRaw) : ask_hitsRaw[j].score <= ask_hits[1].score
    /\ Answered => ask_res.used = ask_hits /\ ask_res.used # <<>>

\* Several candidates came back, none passed the gates, and the response
\* carries the top candidate alone.
C1_Witness ==
    /\ Answered
    /\ Len(ask_hitsRaw) >= 3
    /\ Kept = <<>>
    /\ \E j \in 1..Len(ask_hitsRaw) : ask_hitsRaw[j].filename # ask_hitsRaw[1].filename
    /\ ask_res.used = <<ask_hitsRaw[1]>>

\* C2: when some candidate passes the three gates, the context list is the
\* passing candidates, highest score first, cut to the first 6.
C2_FunnelOutput ==
    (Filtered /\ Kept # <<>>) =>
        LET kept == Kept
        IN  /\ ask_hits = SubSeq(kept, 1, Min(6, Len(kept)))
            /\ \A a, b \in 1..Len(ask_hits) : a < b => ask_hits[a].score >= ask_hits[b].score
            /\ (Answered => ask_res.used = ask_hits)

\* The question holds "defog", seven candidates pass the gates, and the chunk of
\* the top hit's file with score 0.5 that mentions only "defrost" is among the
\* six used.
C2_Witness ==
    /\ Answered
    /\ DEFOG \in TokensOf(ask_q)
    /\ Len(Kept) > 6
    /\ Len(ask_res.used) = 6
    /\ \E j \in 1..Len(ask_res.used) :
          /\ ask_res.used[j].text = DEFROST
          /\ ask_res.used[j].score = 50
          /\ ask_res.used[j].filename = ask_hitsRaw[1].filename

PairOf(h) == <<h.filename, h.page>>

\* The positions of ask_hits that hold the first occurrence of their pair.
FirstSeen ==
    {j \in 1..Len(ask_hits) : \A m \in 1..(j - 1) : PairOf(ask_hits[m]) # PairOf(ask_hits[j])}

\* C3: the citations hold no (filename, page) pair twice, are at most 3, are not
\* empty when there are hits, and are the first min(3, distinct pairs) distinct
\* pairs of the hits in the order of their first occurrence.
C3_CitationsDeduplicated ==
    Answered =>
        LET cits == ask_res.citations
        IN  /\ \A a, b \in 1..Len(cits) : a # b => cits[a] # cits[b]
            /\ Len(cits) <= 3
            /\ ask_hits # <<>> => cits # <<>>
            /\ Len(cits) = Min(3, Cardinality(FirstSeen))
            /\ \A k \in 1..Len(cits) :
                  \E j \in FirstSeen :
                      /\ Cardinality({m \in FirstSeen : m < j}) = k - 1
                      /\ cits[k] = [filename |-> ask_hits[j].filename,
                                    page |-> ask_hits[j].page]

\* The hits repeat a pair among their first three and hold more than three
\* distinct pairs.
C3_Witness ==
    /\ Answered
    /\ Cardinality(FirstSeen) > 3
    /\ \E a, b \in 1..3 : a < b /\ b <= Len(ask_hits) /\ PairOf(ask_hits[a]) = PairOf(ask_hits[b])
    /\ Len(ask_res.citations) = 3

====
